---- MODULE Spec2Model ----
(***************************************************************************)
(* Model of streamlit_app.py (Sentence-to-MP3): the sentence splitter, the *)
(* filename sanitizer, the unique-name allocator and the "Generate MP3 &   *)
(* ZIP" action with its temporary files in the working directory.          *)
(*                                                                         *)
(* A string is a sequence of one-character strings.                        *)
(***************************************************************************)
EXTENDS Integers, Sequences, FiniteSets, TLC

VARIABLES
    text_input,   \* the text area content seen by "Preview split"
    preview,      \* what "Preview split" displayed: [shown, warning, sents]
    san_in,       \* sanitize_filename: argument s
    san_max,      \* sanitize_filename: argument max_len
    san_out,      \* sanitize_filename: [done, stem]
    existing,     \* ensure_unique_name: the used-names set of one run
    bases,        \* ensure_unique_name: base names passed so far
    returned,     \* ensure_unique_name: names returned so far
    run_text,     \* per run: text_input at the time "Generate" is pressed
    show_players, \* per run: sidebar checkbox
    pc,           \* per run: position in the generate action
    sents,        \* per run: split_sentences(text_input)
    idx,          \* per run: loop index of the loop the run is in
    used_names,   \* per run: used_names of synth_all
    files,        \* per run: files of synth_all, <<filename, sentence>> pairs
    calls,        \* per run: sentence indices synth_to_mp3 was called for
    wrote,        \* per run: file names the run wrote a whole audio to
    archive,      \* per run: entries of mem_zip, [name, data]
    offered,      \* per run: the download button was rendered
    rows,         \* per run: playback rows rendered, [i, audio]
    warnings,     \* per run: playback-read warnings
    raised,       \* per run: the exception synth_all raised, or NoExc
    err,          \* per run: the st.error shown, or NoErr
    unlinked,     \* per run: file names an unlink was attempted for
    fs            \* the working directory: file name -> audio, a function

vars == <<text_input, preview, san_in, san_max, san_out, existing, bases,
          returned, run_text, show_players, pc, sents, idx, used_names,
          files, calls, wrote, archive, offered, rows, warnings, raised,
          err, unlinked, fs>>

splitVars == <<text_input, preview>>
sanVars   == <<san_in, san_max, san_out>>
allocVars == <<existing, bases, returned>>
runVars   == <<run_text, show_players, pc, sents, idx, used_names, files,
               calls, wrote, archive, offered, rows, warnings, raised,
               err, unlinked, fs>>

----------------------------------------------------------------------------
(* Bounds of the model *)

MaxTokens == 7     \* tokens in a previewed text
MaxSanLen == 4     \* characters in a sentence given to the sanitizer
MaxMaxLen == 3     \* largest small max_len tried
MaxCalls  == 4     \* ensure_unique_name calls in one allocator run

----------------------------------------------------------------------------
(* Strings *)

\* str.isspace(): the characters str.strip() removes and \s matches
Whitespace == {" ", "\t", "\n", "\r", "\f"}

\* [\.!?]
Terminal == {".", "!", "?"}

\* ["')\]]
Closer == {"\"", "'", ")", "]"}

\* [\\/*?:"<>|]
Illegal == {"\\", "/", "*", "?", ":", "\"", "<", ">", "|"}

\* [\x00-\x1f], the members a string of the model can hold
Control == {"\t", "\n", "\r", "\f"}

\* the one-character truncation marker (U+2026)
Ellipsis == "U+2026"

RECURSIVE Concat(_)
Concat(ss) == IF ss = <<>> THEN <<>> ELSE Head(ss) \o Concat(Tail(ss))

\* s[a:b] with 0-based a, b as in Python, 0 <= a, b
Slice(s, a, b) ==
    LET hi == IF b > Len(s) THEN Len(s) ELSE b
    IN  IF a >= hi THEN <<>> ELSE SubSeq(s, a + 1, hi)

RECURSIVE LStripSet(_, _)
LStripSet(s, cs) ==
    IF s # <<>> /\ Head(s) \in cs THEN LStripSet(Tail(s), cs) ELSE s

RECURSIVE RStripSet(_, _)
RStripSet(s, cs) ==
    IF s # <<>> /\ s[Len(s)] \in cs
    THEN RStripSet(SubSeq(s, 1, Len(s) - 1), cs) ELSE s

\* str.strip(chars)
StripSet(s, cs) == RStripSet(LStripSet(s, cs), cs)

\* str.strip()
Strip(s) == StripSet(s, Whitespace)

\* re.sub(r'\s+', ' ', s)
RECURSIVE CollapseWS(_)
CollapseWS(s) ==
    IF s = <<>> THEN <<>>
    ELSE IF Head(s) \in Whitespace
         THEN <<" ">> \o CollapseWS(LStripSet(s, Whitespace))
         ELSE <<Head(s)>> \o CollapseWS(Tail(s))

\* text[i:].startswith(sub), i 0-based
OccursAt(text, sub, i) ==
    /\ i + Len(sub) <= Len(text)
    /\ \A k \in 1..Len(sub) : text[i + k] = sub[k]

\* str.rfind(sub): the highest 0-based index where sub occurs, -1 if none
RFind(text, sub) ==
    LET hits == {i \in 0..Len(text) : OccursAt(text, sub, i)}
    IN  IF hits = {} THEN -1
        ELSE CHOOSE i \in hits : \A j \in hits : j <= i

\* " ".join(ss)
RECURSIVE Join(_)
Join(ss) ==
    IF ss = <<>> THEN <<>>
    ELSE IF Len(ss) = 1 THEN ss[1]
    ELSE ss[1] \o <<" ">> \o Join(Tail(ss))

----------------------------------------------------------------------------
(* split_sentences *)

\* number of characters of ["')\]]+ at 1-based position p and after
RECURSIVE CloserRun(_, _)
CloserRun(text, p) ==
    IF p <= Len(text) /\ text[p] \in Closer
    THEN 1 + CloserRun(text, p + 1) ELSE 0

\* SENT_SPLIT can end a match whose terminal character is at 1-based q:
\* the greedy closer run after it is followed by whitespace or the end.
\* The result is the 0-based end of the match, or -1.
EndsAt(text, q) ==
    IF text[q] \in Terminal
    THEN LET e == q + CloserRun(text, q + 1)
         IN  IF e = Len(text) \/ text[e + 1] \in Whitespace THEN e ELSE -1
    ELSE -1

\* SENT_SPLIT.search from 0-based position p: .*? is the shortest prefix, so
\* the match starts at p and ends at the first terminal that can end it.
\* The result is the 0-based end of the match, or -1 when there is none.
MatchEnd(text, p) ==
    LET qs == {q \in (p + 1)..Len(text) : EndsAt(text, q) # -1}
    IN  IF qs = {} THEN -1
        ELSE EndsAt(text, CHOOSE q \in qs : \A r \in qs : q <= r)

\* [m.group("sent").strip() for m in SENT_SPLIT.finditer(text)], from p on
RECURSIVE FindAll(_, _)
FindAll(text, p) ==
    LET e == MatchEnd(text, p)
    IN  IF e = -1 THEN <<>>
        ELSE <<Strip(Slice(text, p, e))>> \o FindAll(text, e)

\* text[text.rfind(sents[-1])+len(sents[-1]):]
TailOf(text, ms) ==
    LET last == ms[Len(ms)]
    IN  Slice(text, RFind(text, last) + Len(last), Len(text))

split_sentences(raw) ==
    LET text == CollapseWS(Strip(raw))
        ms   == FindAll(text, 0)
        tail == TailOf(text, ms)
        all  == IF ms # <<>>
                THEN IF tail # <<>> /\ Strip(tail) # <<>>
                     THEN Append(ms, Strip(tail)) ELSE ms
                ELSE IF text # <<>> THEN <<text>> ELSE <<>>
    IN  SelectSeq(all, LAMBDA s : s # <<>>)

----------------------------------------------------------------------------
(* sanitize_filename *)

DefaultMaxLen == 80

\* the fallback stem "sentence"
Placeholder == <<"s", "e", "n", "t", "e", "n", "c", "e">>

\* re.sub(r'[\\/*?:"<>|]', '_', s)
ReplaceIllegal(s) == [i \in 1..Len(s) |-> IF s[i] \in Illegal THEN "_" ELSE s[i]]

\* re.sub(r'[\x00-\x1f]', '', s)
RemoveControl(s) == SelectSeq(s, LAMBDA c : c \notin Control)

\* s.strip().strip('.')
TrimEnds(s) == StripSet(Strip(s), {"."})

\* s[:max_len].rstrip() + the truncation marker
Truncate(s, max_len) ==
    RStripSet(Slice(s, 0, max_len), Whitespace) \o <<Ellipsis>>

sanitize_filename(s, max_len) ==
    LET s1 == ReplaceIllegal(s)
        s2 == RemoveControl(s1)
        s3 == TrimEnds(s2)
        s4 == IF s3 = <<>> THEN Placeholder ELSE s3
    IN  IF Len(s4) > max_len THEN Truncate(s4, max_len) ELSE s4

----------------------------------------------------------------------------
(* ensure_unique_name *)

Digit(d) == <<"0", "1", "2", "3", "4", "5", "6", "7", "8", "9">>[d + 1]

\* str(n) for n >= 0
RECURSIVE Decimal(_)
Decimal(n) ==
    IF n < 10 THEN <<Digit(n)>> ELSE Decimal(n \div 10) \o <<Digit(n % 10)>>

\* f"{stem} ({n})"
Candidate(stem, n) == stem \o <<" ", "(">> \o Decimal(n) \o <<")">>

\* the while True loop: the first candidate from n on that is not in existing
RECURSIVE Probe(_, _, _)
Probe(used, stem, n) ==
    IF Candidate(stem, n) \notin used THEN Candidate(stem, n)
    ELSE Probe(used, stem, n + 1)

\* a variant that gives up probing after the first candidate
ensure_unique_name_noloop(used, base_name) ==
    IF base_name \notin used THEN base_name ELSE Candidate(base_name, 2)

\* a variant that numbers the first duplicate 1
ensure_unique_name_from1(used, base_name) ==
    IF base_name \notin used THEN base_name ELSE Probe(used, base_name, 1)

\* the name ensure_unique_name returns; the set it leaves is used \cup {it}
ensure_unique_name(used, base_name) ==
    IF base_name \notin used THEN base_name ELSE Probe(used, base_name, 2)

----------------------------------------------------------------------------
(* The generate action: one run per session, files in the working directory *)

Runs == {1, 2}

Mp3 == <<".", "m", "p", "3">>

\* os.path.basename(fname): what follows the last "/"
RECURSIVE Basename(_)
Basename(fname) ==
    IF \E i \in 1..Len(fname) : fname[i] = "/"
    THEN Basename(Tail(fname)) ELSE fname

\* the audio communicate.save writes for sentence i of run r
Audio(r, i) == [run |-> r, i |-> i]

\* what communicate.save leaves in the file when it fails part-way
Partial(r, i) == [run |-> r, i |-> i, partial |-> TRUE]

\* a variant that names the file after the sanitized stem alone
TargetNameNoUnique(used, s) == sanitize_filename(s, DefaultMaxLen) \o Mp3

\* synth_all: safe_stem, unique_stem, filename of a sentence
TargetName(used, s) ==
    ensure_unique_name(used, sanitize_filename(s, DefaultMaxLen)) \o Mp3

\* the stem TargetName registers in used_names
TargetStem(name) == SubSeq(name, 1, Len(name) - Len(Mp3))

NoExc == [type |-> "none", msg |-> ""]
NoErr == [kind |-> "none", msg |-> ""]

\* what wait_for(communicate.save(...)) can raise
Exceptions ==
    {[type |-> "TimeoutError", msg |-> ""],
     [type |-> "Exception", msg |-> "no audio"],
     [type |-> "Exception", msg |-> "bad voice"]}

\* a variant whose first handler catches every exception
ErrorShownCatchAll(exc) == [kind |-> "Synthesis", msg |-> exc.msg]

\* except asyncio.TimeoutError: ... / except Exception as e: ...
ErrorShown(exc) ==
    IF exc.type = "TimeoutError"
    THEN [kind |-> "Timeout", msg |-> ""]
    ELSE [kind |-> "Synthesis", msg |-> exc.msg]

\* run = st.button(...); if run: sents = split_sentences(text_input)
Generate(r) ==
    /\ pc[r] = "ready"
    /\ LET ss == split_sentences(run_text[r])
       IN  /\ sents' = [sents EXCEPT ![r] = ss]
           /\ IF ss = <<>>
              THEN /\ err' = [err EXCEPT ![r] = [kind |-> "Empty", msg |-> ""]]
                   /\ pc' = [pc EXCEPT ![r] = "done"]
              ELSE /\ err' = err
                   /\ pc' = [pc EXCEPT ![r] = "synth"]
    /\ idx' = [idx EXCEPT ![r] = 1]
    /\ UNCHANGED <<splitVars, sanVars, allocVars>>
    /\ UNCHANGED <<run_text, show_players, used_names, files, calls, wrote,
                   archive, offered, rows, warnings, raised, unlinked, fs>>

\* one iteration of the loop of synth_all whose synth_to_mp3 returns
SynthOk(r) ==
    /\ pc[r] = "synth"
    /\ LET i     == idx[r]
           s     == sents[r][i]
           fname == TargetName(used_names[r], s)
       IN  /\ used_names' = [used_names EXCEPT ![r] = @ \cup {TargetStem(fname)}]
           /\ calls' = [calls EXCEPT ![r] = Append(@, i)]
           /\ fs' = [f \in DOMAIN fs \cup {fname} |->
                        IF f = fname THEN Audio(r, i) ELSE fs[f]]
           /\ wrote' = [wrote EXCEPT ![r] = @ \cup {fname}]
           /\ files' = [files EXCEPT ![r] = Append(@, <<fname, s>>)]
           /\ IF i = Len(sents[r])
              THEN /\ pc' = [pc EXCEPT ![r] = "zip"]
                   /\ idx' = [idx EXCEPT ![r] = 1]
              ELSE /\ pc' = pc
                   /\ idx' = [idx EXCEPT ![r] = i + 1]
    /\ UNCHANGED <<splitVars, sanVars, allocVars>>
    /\ UNCHANGED <<run_text, show_players, sents, archive, offered, rows,
                   warnings, raised, err, unlinked>>

\* one iteration of the loop of synth_all whose synth_to_mp3 raises: the
\* exception leaves asyncio.run, st.error is shown and st.stop() ends the run.
\* The failed save may have created the file already.
SynthFail(r) ==
    /\ pc[r] = "synth"
    /\ \E exc \in Exceptions, created \in BOOLEAN :
         LET i     == idx[r]
             s     == sents[r][i]
             fname == TargetName(used_names[r], s)
         IN  /\ used_names' = [used_names EXCEPT ![r] = @ \cup {TargetStem(fname)}]
             /\ calls' = [calls EXCEPT ![r] = Append(@, i)]
             /\ fs' = IF created
                      THEN [f \in DOMAIN fs \cup {fname} |->
                               IF f = fname THEN Partial(r, i) ELSE fs[f]]
                      ELSE fs
             /\ raised' = [raised EXCEPT ![r] = exc]
             /\ err' = [err EXCEPT ![r] = ErrorShown(exc)]
             /\ pc' = [pc EXCEPT ![r] = "stopped"]
    /\ UNCHANGED <<splitVars, sanVars, allocVars>>
    /\ UNCHANGED <<run_text, show_players, sents, idx, files, wrote,
                   archive, offered, rows, warnings, unlinked>>

\* one zf.write(fname, arcname=os.path.basename(fname)); a missing file
\* raises out of the script
ZipWrite(r) ==
    /\ pc[r] = "zip"
    /\ LET j     == idx[r]
           fname == files[r][j][1]
       IN  IF fname \in DOMAIN fs
           THEN /\ archive' = [archive EXCEPT ![r] =
                       Append(@, [name |-> Basename(fname), data |-> fs[fname]])]
                /\ IF j = Len(files[r])
                   THEN /\ pc' = [pc EXCEPT ![r] = "offer"]
                        /\ idx' = [idx EXCEPT ![r] = 1]
                   ELSE /\ pc' = pc
                        /\ idx' = [idx EXCEPT ![r] = j + 1]
                /\ err' = err
           ELSE /\ pc' = [pc EXCEPT ![r] = "crashed"]
                /\ err' = [err EXCEPT ![r] = [kind |-> "Uncaught", msg |-> ""]]
                /\ UNCHANGED <<archive, idx>>
    /\ UNCHANGED <<splitVars, sanVars, allocVars>>
    /\ UNCHANGED <<run_text, show_players, sents, used_names, files, calls,
                   wrote, offered, rows, warnings, raised, unlinked, fs>>

\* st.success(...); st.download_button(...); if show_players: ...
Offer(r) ==
    /\ pc[r] = "offer"
    /\ offered' = [offered EXCEPT ![r] = TRUE]
    /\ pc' = [pc EXCEPT ![r] = IF show_players[r] THEN "play" ELSE "cleanup"]
    /\ UNCHANGED <<splitVars, sanVars, allocVars>>
    /\ UNCHANGED <<run_text, show_players, sents, idx, used_names, files,
                   calls, wrote, archive, rows, warnings, raised, err,
                   unlinked, fs>>

\* one iteration of the playback loop: read the file and render a row, or
\* warn when the read fails
Play(r) ==
    /\ pc[r] = "play"
    /\ LET j     == idx[r]
           fname == files[r][j][1]
       IN  /\ IF fname \in DOMAIN fs
              THEN /\ rows' = [rows EXCEPT ![r] =
                         Append(@, [i |-> j, s |-> files[r][j][2],
                                    audio |-> fs[fname]])]
                   /\ warnings' = warnings
              ELSE /\ warnings' = [warnings EXCEPT ![r] = Append(@, fname)]
                   /\ rows' = rows
           /\ IF j = Len(files[r])
              THEN /\ pc' = [pc EXCEPT ![r] = "cleanup"]
                   /\ idx' = [idx EXCEPT ![r] = 1]
              ELSE /\ pc' = pc
                   /\ idx' = [idx EXCEPT ![r] = j + 1]
    /\ UNCHANGED <<splitVars, sanVars, allocVars>>
    /\ UNCHANGED <<run_text, show_players, sents, used_names, files, calls,
                   wrote, archive, offered, raised, err, unlinked, fs>>

\* one Path(fname).unlink(missing_ok=True) under try/except: pass
Unlink(r) ==
    /\ pc[r] = "cleanup"
    /\ \E ok \in BOOLEAN :
         LET j     == idx[r]
             fname == files[r][j][1]
         IN  /\ unlinked' = [unlinked EXCEPT ![r] = @ \cup {fname}]
             /\ fs' = IF ok THEN [f \in DOMAIN fs \ {fname} |-> fs[f]] ELSE fs
             /\ IF j = Len(files[r])
                THEN /\ pc' = [pc EXCEPT ![r] = "done"]
                     /\ idx' = idx
                ELSE /\ pc' = pc
                     /\ idx' = [idx EXCEPT ![r] = j + 1]
    /\ UNCHANGED <<splitVars, sanVars, allocVars>>
    /\ UNCHANGED <<run_text, show_players, sents, used_names, files, calls,
                   wrote, archive, offered, rows, warnings, raised, err>>

----------------------------------------------------------------------------
(* States in which a part of the program is not exercised *)

NoPreview == [shown |-> FALSE, warning |-> FALSE, sents |-> <<>>]
NoStem    == [done |-> FALSE, stem |-> <<>>]

IdlePreview == text_input = <<>> /\ preview = NoPreview
IdleSanitizer == san_in = <<>> /\ san_max = DefaultMaxLen /\ san_out = NoStem
IdleAllocator == existing = {} /\ bases = <<>> /\ returned = <<>>

\* the runs of Started are about to press "Generate", the others never do
RunsStart(Started, Texts) ==
    /\ run_text \in [Runs -> Texts]
    /\ \A r \in Runs \ Started : run_text[r] = <<>>
    /\ show_players \in [Runs -> BOOLEAN]
    /\ \A r \in Runs \ Started : show_players[r]
    /\ pc = [r \in Runs |-> IF r \in Started THEN "ready" ELSE "off"]
    /\ sents = [r \in Runs |-> <<>>]
    /\ idx = [r \in Runs |-> 1]
    /\ used_names = [r \in Runs |-> {}]
    /\ files = [r \in Runs |-> <<>>]
    /\ calls = [r \in Runs |-> <<>>]
    /\ wrote = [r \in Runs |-> {}]
    /\ archive = [r \in Runs |-> <<>>]
    /\ offered = [r \in Runs |-> FALSE]
    /\ rows = [r \in Runs |-> <<>>]
    /\ warnings = [r \in Runs |-> <<>>]
    /\ raised = [r \in Runs |-> NoExc]
    /\ err = [r \in Runs |-> NoErr]
    /\ unlinked = [r \in Runs |-> {}]
    /\ fs = <<>>

IdleRuns == RunsStart({}, {<<>>})

----------------------------------------------------------------------------
(* "Preview split" over bounded texts *)

Tokens == {<<" ">>, <<".", ")">>, <<")">>, <<"x">>}

PreviewTexts ==
    {Concat(ts) : ts \in UNION {[1..n -> Tokens] : n \in 0..MaxTokens}}

InitSplit ==
    /\ text_input \in PreviewTexts
    /\ preview = NoPreview
    /\ IdleSanitizer /\ IdleAllocator /\ IdleRuns

\* if st.button("Preview split"): sents = split_sentences(text_input); ...
PreviewSplit ==
    /\ ~preview.shown
    /\ LET ss == split_sentences(text_input)
       IN  preview' = [shown |-> TRUE, warning |-> (ss = <<>>), sents |-> ss]
    /\ UNCHANGED <<text_input, sanVars, allocVars, runVars>>

NextSplit == PreviewSplit

SpecSplit == InitSplit /\ [][NextSplit]_vars

----------------------------------------------------------------------------
(* sanitize_filename over bounded sentences and max_len values *)

SanChars == {"a", " ", ".", "/", "\t"}

SanInputs == UNION {[1..n -> SanChars] : n \in 0..MaxSanLen}

InitSan ==
    /\ san_in \in SanInputs
    /\ san_max \in (1..MaxMaxLen) \cup {DefaultMaxLen}
    /\ san_out = NoStem
    /\ IdlePreview /\ IdleAllocator /\ IdleRuns

Sanitize ==
    /\ ~san_out.done
    /\ san_out' = [done |-> TRUE, stem |-> sanitize_filename(san_in, san_max)]
    /\ UNCHANGED <<san_in, san_max, splitVars, allocVars, runVars>>

NextSan == Sanitize

SpecSan == InitSan /\ [][NextSan]_vars

----------------------------------------------------------------------------
(* ensure_unique_name over one used-names set *)

BaseNames ==
    {<<"A">>, <<"B">>, Candidate(<<"A">>, 2), Candidate(<<"A">>, 3)}

InitAlloc ==
    /\ existing = {} /\ bases = <<>> /\ returned = <<>>
    /\ IdlePreview /\ IdleSanitizer /\ IdleRuns

\* unique_stem = ensure_unique_name(used_names, safe_stem)
Allocate ==
    /\ Len(bases) < MaxCalls
    /\ \E b \in BaseNames :
         LET name == ensure_unique_name(existing, b)
         IN  /\ existing' = existing \cup {name}
             /\ bases' = Append(bases, b)
             /\ returned' = Append(returned, name)
    /\ UNCHANGED <<splitVars, sanVars, runVars>>

NextAlloc == Allocate

SpecAlloc == InitAlloc /\ [][NextAlloc]_vars

----------------------------------------------------------------------------
(* The generate action: one run alone, and two interleaved runs *)

RunTexts ==
    {<<>>,
     <<"a", ".">>,
     <<"a", ".", " ", "a", ".">>,
     <<"a", ".", " ", "b">>,
     <<"a", ".", " ", "a", ".", " ", "a", " ", "(", "2", ")", ".">>}

NextRun ==
    \/ \E r \in Runs : Generate(r)
    \/ \E r \in Runs : SynthOk(r)
    \/ \E r \in Runs : SynthFail(r)
    \/ \E r \in Runs : ZipWrite(r)
    \/ \E r \in Runs : Offer(r)
    \/ \E r \in Runs : Play(r)
    \/ \E r \in Runs : Unlink(r)

InitRun ==
    /\ RunsStart({1}, RunTexts)
    /\ IdlePreview /\ IdleSanitizer /\ IdleAllocator

InitConc ==
    /\ RunsStart(Runs, RunTexts)
    /\ IdlePreview /\ IdleSanitizer /\ IdleAllocator

Spec == InitRun /\ [][NextRun]_vars

SpecConc == InitConc /\ [][NextRun]_vars

----------------------------------------------------------------------------
(* Properties *)

Range(seq) == {seq[i] : i \in 1..Len(seq)}

UpTo(n) == [i \in 1..n |-> i]

\* the file names synth_all gives the sentences ss, starting from the set used
RECURSIVE ExpectedNames(_, _)
ExpectedNames(ss, used) ==
    IF ss = <<>> THEN <<>>
    ELSE LET stem == sanitize_filename(Head(ss), DefaultMaxLen)
             name == IF stem \notin used THEN stem ELSE Probe(used, stem, 2)
         IN  <<name \o Mp3>> \o ExpectedNames(Tail(ss), used \cup {name})

\* C1: in one allocator run the names returned are pairwise distinct, and
\* after every call the used-names set is exactly the set of names returned.
UniqueNames ==
    /\ \A i, j \in 1..Len(returned) : i # j => returned[i] # returned[j]
    /\ existing = Range(returned)

\* C1 witness: a base name was passed twice and a later base name equals the
\* suffixed name the duplicate got.
UniqueNamesWitness ==
    /\ Len(returned) >= 3
    /\ bases[1] = bases[2]
    /\ bases[3] = returned[2]

\* C2 as stated: a stem equal to no earlier stem of the run is returned
\* unchanged, and a stem equal to an earlier stem gets a " (n)" suffix, n >= 2.
NoPriorDuplicateUnchanged ==
    \A k \in 1..Len(bases) :
        IF \A j \in 1..(k - 1) : bases[j] # bases[k]
        THEN returned[k] = bases[k]
        ELSE \E n \in 2..(k + 1) : returned[k] = Candidate(bases[k], n)

\* C2 amended: a stem equal to no name returned earlier in the run is returned
\* unchanged; a stem equal to a name returned earlier gets " (n)", n the
\* smallest number from 2 on whose suffixed name was not returned earlier.
SuffixOnlyOnUsedName ==
    \A k \in 1..Len(bases) :
        LET before == {returned[j] : j \in 1..(k - 1)}
        IN  IF bases[k] \notin before
            THEN returned[k] = bases[k]
            ELSE \E n \in 2..(k + 1) :
                    /\ returned[k] = Candidate(bases[k], n)
                    /\ Candidate(bases[k], n) \notin before
                    /\ \A m \in 2..(n - 1) : Candidate(bases[k], m) \in before

\* C2 witness: a stem that no earlier stem equals was renamed, and a duplicate
\* skipped a number that was taken.
SuffixOnlyOnUsedNameWitness ==
    \E k \in 1..Len(bases) :
        /\ \A j \in 1..(k - 1) : bases[j] # bases[k]
        /\ returned[k] # bases[k]

\* C3: the sentences "Preview split" shows, joined by single spaces, are the
\* whitespace-normalized text: no content is lost.
LosslessSplit ==
    preview.shown => Join(preview.sents) = CollapseWS(Strip(text_input))

\* C4: splitting the shown sentences joined by single spaces gives the same
\* sentences again.
SplitIdempotent ==
    preview.shown => split_sentences(Join(preview.sents)) = preview.sents

\* C5: the stem, truncation marker included, is no longer than max_len.
StemWithinMaxLen ==
    san_out.done => Len(san_out.stem) <= san_max

\* C6: the stem is non-empty and neither starts nor ends with "." or
\* whitespace.
StemTrimmed ==
    san_out.done =>
        /\ san_out.stem # <<>>
        /\ Head(san_out.stem) \notin {"."} \cup Whitespace
        /\ san_out.stem[Len(san_out.stem)] \notin {"."} \cup Whitespace

\* C7: a run whose synthesis call for sentence k raised is halted: it called
\* synthesis for sentences 1..k only, built and offered no archive, rendered
\* no playback row, and shows a Timeout error for a timeout and a Synthesis
\* error with the provider's message for any other failure.
FailedRunHalts ==
    \A r \in Runs :
        raised[r] # NoExc =>
            /\ pc[r] = "stopped"
            /\ idx[r] <= Len(sents[r])
            /\ calls[r] = UpTo(idx[r])
            /\ archive[r] = <<>>
            /\ ~offered[r]
            /\ rows[r] = <<>>
            /\ raised[r].type = "TimeoutError" => err[r].kind = "Timeout"
            /\ raised[r].type # "TimeoutError" =>
                   err[r] = [kind |-> "Synthesis", msg |-> raised[r].msg]

\* C7 witness: the synthesis of a later sentence timed out after an earlier
\* sentence had been synthesized.
FailedRunHaltsWitness ==
    \E r \in Runs :
        /\ pc[r] = "stopped"
        /\ raised[r].type = "TimeoutError"
        /\ idx[r] >= 2
        /\ files[r] # <<>>

\* C8: once the archive of a run is offered, synthesis was called once per
\* sentence in order, and entry i of the archive is named after the i-th
\* unique stem plus ".mp3", without a directory, and holds the audio written
\* for sentence i.
ArchiveMatchesSentences ==
    \A r \in Runs :
        offered[r] =>
            LET n     == Len(sents[r])
                names == ExpectedNames(sents[r], {})
            IN  /\ calls[r] = UpTo(n)
                /\ Len(archive[r]) = n
                /\ \A i \in 1..n :
                     /\ archive[r][i].name = names[i]
                     /\ "/" \notin Range(archive[r][i].name)
                     /\ archive[r][i].data = Audio(r, i)

\* C8 witness: an archive is offered for a run with a repeated sentence.
ArchiveMatchesSentencesWitness ==
    \E r \in Runs :
        /\ offered[r]
        /\ Len(sents[r]) >= 2
        /\ sents[r][1] = sents[r][2]

\* C9: when a run has ended, on any path, an unlink was attempted for every
\* audio file the run wrote.
CleanupOnEveryExit ==
    \A r \in Runs :
        pc[r] \in {"done", "stopped", "crashed"} => wrote[r] \subseteq unlinked[r]

\* C10: of two interleaved runs, each packages and plays only audio it wrote
\* itself, and neither fails or misses a file because of the other.
ExclusiveFiles ==
    \A r \in Runs :
        /\ \A i \in 1..Len(archive[r]) : archive[r][i].data = Audio(r, i)
        /\ \A i \in 1..Len(rows[r]) : rows[r][i].audio.run = r
        /\ warnings[r] = <<>>
        /\ pc[r] # "crashed"

====
